---- MODULE Spec2Model ----
(***************************************************************************)
(* Stock Register page (src/pages/Stock_Register.py): the inventory       *)
(* summary query over the Received, Adjustment, Sales and CostCenter      *)
(* tables of dispatch.duckdb, the page script with its per-source         *)
(* getters and the memo of st.cache_data, and the sessions of the         *)
(* dashboard that read and write the same database file.  Further: the    *)
(* download of dispatch.duckdb by get_duckdb of each page, the navigation *)
(* radio of the Home page and the pages, and the difference table of the  *)
(* Orders vs Sales page (src/pages/Sales_Vs_Orders.py).                   *)
(*                                                                         *)
(* Tables and intermediate results of the query are bags of rows (SQL     *)
(* relations are multisets).  A calendar date is the day number of        *)
(* January 2024 (day 1 is 2024-01-01).  Quantities are whole units.       *)
(* A cell can also hold NULL or, in a date or quantity column, a text     *)
(* that is no date or number.                                              *)
(***************************************************************************)
EXTENDS Integers, Sequences, FiniteSets, Bags, TLC

VARIABLES Received, Adjustment, Sales, CostCenter,
          start_date, end_date, search_code, runningStock, df, shown,
          selected_table, executed, cache,
          ProductsWithCode, page, stmt,
          file, boot, con, current_page, Orders

vars == <<Received, Adjustment, Sales, CostCenter,
          start_date, end_date, search_code, runningStock, df, shown,
          selected_table, executed, cache,
          ProductsWithCode, page, stmt,
          file, boot, con, current_page, Orders>>

tables == <<Received, Adjustment, Sales, CostCenter>>

\* The tables of dispatch.duckdb that the model has: the four event tables
\* and ProductsWithCode, the table the Route By Route page creates.
database == <<Received, Adjustment, Sales, CostCenter, ProductsWithCode>>

\* The page beyond the summary itself: the table selected in the sidebar,
\* the getter whose statement the run executed ("none" when it executed no
\* statement), and the memo of st.cache_data.
pageVars == <<selected_table, executed, cache>>

\* The browser sessions of the dashboard: the page each session is on and
\* the statement its script is executing ("none" between statements).
sessionVars == <<page, stmt>>

\* The rest of the dashboard: the file dispatch.duckdb on disk, where each
\* page's get_duckdb stands and what its connection was opened on, the
\* current_page of each session's st.session_state, and the Orders table of
\* the Orders vs Sales page.
dashVars == <<file, boot, con, current_page, Orders>>

(***************************************************************************)
(* Bounds of the model.                                                    *)
(***************************************************************************)
MaxDate == 3
MaxQty == 1
MaxRows == 3

Dates == 1..MaxDate
Sessions == {"s1", "s2"}
Codes == {"ABC", "X"}
Qtys == 1..MaxQty
\* Adjustment_Qty is added to stock with its sign preserved: a write-off is
\* a negative quantity.
AdjustmentQtys == Qtys \cup {-q : q \in Qtys}
\* The search box is left empty.
SearchTexts == {""}

\* Pages that open dispatch.duckdb, each through its own get_duckdb.
BootPages == {"Stock_Register", "Top_Items_By_Dispatch", "Total_Dispatched_Chat"}

\* The dashboard outside the run of the Stock Register: dispatch.duckdb is
\* on disk, every page has its connection, every session's current_page is
\* the default, the Orders table is empty.
DashboardAtRest ==
    /\ file = "complete"
    /\ boot = [p \in BootPages |-> "connected"]
    /\ con = [p \in BootPages |-> "complete"]
    /\ current_page = [s \in Sessions |-> "Home"]
    /\ Orders = EmptyBag

(***************************************************************************)
(* Cells without a value.  NULL and a text that cannot be cast (such as   *)
(* 'n/a') are written as two reserved values far outside the days and     *)
(* quantities of the model; a NULL product code is a reserved string.     *)
(***************************************************************************)
NullCell == 0 - 999999
TextCell == 0 - 999998
NullCode == "(null)"

\* a = b of SQL on product codes: not true when either side is NULL.
CodeEq(a, b) == a # NullCode /\ b # NullCode /\ a = b

(***************************************************************************)
(* Strings.  A string is known to the model by its code points.           *)
(***************************************************************************)
Chars(s) ==
    CASE s = "" -> <<>>
      [] s = "b" -> <<98>>
      [] s = "X" -> <<88>>
      [] s = "ABC" -> <<65, 66, 67>>

\* str.lower() on one code point (ASCII letters).
Lower(c) == IF c >= 65 /\ c <= 90 THEN c + 32 ELSE c

LowerSeq(cs) == [i \in 1..Len(cs) |-> Lower(cs[i])]

\* Series.str.contains(pat, case=False, na=False) for a pattern of plain
\* letters: pat occurs in s, letter case ignored.
StrContains(s, pat) ==
    IF s = NullCode THEN FALSE
    ELSE LET h == LowerSeq(Chars(s))
             n == LowerSeq(Chars(pat))
         IN  \E i \in 1..(Len(h) - Len(n) + 1) : SubSeq(h, i, i + Len(n) - 1) = n

\* Collation of ORDER BY Code: code points compared left to right.
RECURSIVE SeqLess(_, _)
SeqLess(a, b) ==
    IF b = <<>> THEN FALSE
    ELSE IF a = <<>> THEN TRUE
    ELSE IF Head(a) # Head(b) THEN Head(a) < Head(b)
    ELSE SeqLess(Tail(a), Tail(b))

\* NULL sorts after every code (NULLS LAST, the default of DuckDB).
CodeLess(a, b) ==
    IF a = NullCode THEN FALSE
    ELSE IF b = NullCode THEN TRUE
    ELSE SeqLess(Chars(a), Chars(b))

(***************************************************************************)
(* Dates.  date.strftime('%Y-%m-%d') gives the year, month and day fields *)
(* of the text; CAST(text AS DATE) reads them back.                       *)
(***************************************************************************)
Strftime(d) == <<2024, 1, d>>

CastAsDate(txt) == txt[3]

(***************************************************************************)
(* SQL aggregates over bags.                                               *)
(***************************************************************************)
RECURSIVE Sum(_)
\* The sum of the values of a function with a finite domain.
Sum(f) ==
    IF DOMAIN f = {} THEN 0
    ELSE LET x == CHOOSE x \in DOMAIN f : TRUE
         IN  f[x] + Sum([y \in DOMAIN f \ {x} |-> f[y]])

\* SUM over rows of bag B: f gives the summed expression on the rows that
\* are selected; each row counts as often as it occurs in B.
SumWhere(B, f) == Sum([r \in DOMAIN f |-> B[r] * f[r]])

\* SUM of SQL: NULL values are skipped; the sum of no value is NULL.
SqlSumWhere(B, f) ==
    LET present == {r \in DOMAIN f : f[r] # NullCell}
    IN  IF present = {} THEN NullCell
        ELSE SumWhere(B, [r \in present |-> f[r]])

\* a + b of SQL: NULL when either side is NULL.
SqlPlus(a, b) == IF a = NullCell \/ b = NullCell THEN NullCell ELSE a + b

Max(S) == CHOOSE x \in S : \A y \in S : y <= x

\* The bag holding row p[1] p[2] times for every p in P (p[3] tells apart
\* two origins of the same row).
BagOfPairs(P) ==
    [x \in {p[1] : p \in P} |-> Sum([p \in {q \in P : q[1] = x} |-> p[2]])]

(***************************************************************************)
(* get_inventory_summary: the common table expressions of the query, in   *)
(* the order of the source.  R, A, S, C are the Received, Adjustment,      *)
(* Sales and CostCenter tables.                                            *)
(***************************************************************************)
\* COALESCE(q, 0).
Coalesce0(q) == IF q = NullCell THEN 0 ELSE q

\* CAST(Qty AS DECIMAL) is DECIMAL(18,3): a whole number of units within
\* 18 digits is kept as it is, NULL stays NULL.  (A text that is no number
\* makes the statement fail, see QueryRaises.)
CastAsDecimal(q) == q

\* Received_Data: the rows of Received and of Adjustment, UNION ALL, one
\* output row per source row (no GROUP BY).
Received_Data(R, A) ==
    BagOfPairs(
        {<<[Date |-> r.Received_Date, Code |-> r.Code,
            Received_Qty |-> Coalesce0(r.Received_Qty)], R[r], <<"Received", r>>>>
            : r \in DOMAIN R}
        \cup
        {<<[Date |-> a.Adjuctment_Date, Code |-> a.Code,
            Received_Qty |-> Coalesce0(a.Adjustment_Qty)], A[a], <<"Adjustment", a>>>>
            : a \in DOMAIN A})

\* The inner UNION ALL of Sales_Data: Sales grouped by (Code, Sales_Date)
\* and CostCenter grouped by (Code, Date).
Sales_Data_combined(S, C) ==
    BagOfPairs(
        {<<[Date |-> k[1], Code |-> k[2],
            Sales_Qty |-> SqlSumWhere(S, [x \in {y \in DOMAIN S :
                                                   y.Sales_Date = k[1] /\ y.Code = k[2]}
                                                |-> CastAsDecimal(x.Qty)]),
            CostCenter_Qty |-> 0], 1, "Sales">>
            : k \in {<<s.Sales_Date, s.Code>> : s \in DOMAIN S}}
        \cup
        {<<[Date |-> k[1], Code |-> k[2],
            Sales_Qty |-> 0,
            CostCenter_Qty |-> SqlSumWhere(C, [x \in {y \in DOMAIN C :
                                                        y.Date = k[1] /\ y.Code = k[2]}
                                                     |-> CastAsDecimal(x.Qty)])], 1, "CostCenter">>
            : k \in {<<c.Date, c.Code>> : c \in DOMAIN C}})

\* Sales_Data: one row per (Code, Date), SUM(Sales_Qty) + SUM(CostCenter_Qty).
Sales_Data(S, C) ==
    LET combined == Sales_Data_combined(S, C)
        keys == {<<x.Date, x.Code>> : x \in DOMAIN combined}
    IN  SetToBag(
          {[Date |-> k[1], Code |-> k[2],
            Sales_Qty |->
                SqlPlus(SqlSumWhere(combined, [x \in {y \in DOMAIN combined :
                                                         y.Date = k[1] /\ y.Code = k[2]}
                                                      |-> x.Sales_Qty]),
                        SqlSumWhere(combined, [x \in {y \in DOMAIN combined :
                                                         y.Date = k[1] /\ y.Code = k[2]}
                                                      |-> x.CostCenter_Qty]))]
            : k \in keys})

\* Combined as an INNER JOIN: a row without a partner on the other side
\* gives no row.
Combined_InnerJoin(R, A, S, C) ==
    LET rd == Received_Data(R, A)
        sd == Sales_Data(S, C)
        On(r, s) == CodeEq(r.Code, s.Code) /\ r.Date = s.Date
    IN  BagOfPairs(
          {<<[Date |-> p[1].Date, Code |-> p[1].Code,
              Received_Qty |-> Coalesce0(p[1].Received_Qty),
              Sales_Qty |-> Coalesce0(p[2].Sales_Qty)],
             rd[p[1]] * sd[p[2]], p>>
             : p \in {q \in (DOMAIN rd) \X (DOMAIN sd) : On(q[1], q[2])}})

\* Combined: Received_Data r FULL OUTER JOIN Sales_Data s
\* ON r.Code = s.Code AND r.Date = s.Date.  Every pair of matching rows
\* gives one row; a row without a partner gives one row with 0 for the
\* other side's quantity (COALESCE(.., 0) of both quantities).  A NULL Code
\* matches no row.
Combined(R, A, S, C) ==
    LET rd == Received_Data(R, A)
        sd == Sales_Data(S, C)
        On(r, s) == CodeEq(r.Code, s.Code) /\ r.Date = s.Date
    IN  BagOfPairs(
          {<<[Date |-> p[1].Date, Code |-> p[1].Code,
              Received_Qty |-> Coalesce0(p[1].Received_Qty),
              Sales_Qty |-> Coalesce0(p[2].Sales_Qty)],
             rd[p[1]] * sd[p[2]], p>>
             : p \in {q \in (DOMAIN rd) \X (DOMAIN sd) : On(q[1], q[2])}}
          \cup
          {<<[Date |-> r.Date, Code |-> r.Code,
              Received_Qty |-> Coalesce0(r.Received_Qty), Sales_Qty |-> 0], rd[r], <<r>>>>
             : r \in {x \in DOMAIN rd : \A s \in DOMAIN sd : ~On(x, s)}}
          \cup
          {<<[Date |-> s.Date, Code |-> s.Code,
              Received_Qty |-> 0, Sales_Qty |-> Coalesce0(s.Sales_Qty)], sd[s], <<s>>>>
             : s \in {x \in DOMAIN sd : \A r \in DOMAIN rd : ~On(r, x)}})

\* The orders in which the window of RunningStock can meet the rows of
\* Combined: ORDER BY Date sorts by date and leaves the order of rows of
\* one date to the engine.
RECURSIVE TieOrders(_)
TieOrders(B) ==
    IF DOMAIN B = {} THEN {<<>>}
    ELSE LET first == {x \in DOMAIN B : \A y \in DOMAIN B : x.Date <= y.Date}
         IN  UNION {{<<x>> \o o : o \in TieOrders(B (-) SetToBag({x}))} : x \in first}

\* RunningStock: SUM(Received_Qty - Sales_Qty) OVER (PARTITION BY Code
\* ORDER BY Date ROWS BETWEEN UNBOUNDED PRECEDING AND CURRENT ROW), one
\* output row per row of Combined, met in the order ord.
RunningStock(ord) ==
    [i \in 1..Len(ord) |->
        [Code |-> ord[i].Code, Date |-> ord[i].Date,
         CumulativeStock |->
            Sum([j \in {k \in 1..i : ord[k].Code = ord[i].Code}
                    |-> ord[j].Received_Qty - ord[j].Sales_Qty])]]

\* PrevStock: MAX(CumulativeStock) of the RunningStock rows WHERE
\* Date < start, GROUP BY Code.
PrevStock(rs, start) ==
    LET rows == {i \in 1..Len(rs) : rs[i].Date < start}
    IN  {[Code |-> c,
          Previous_Stock |-> Max({rs[i].CumulativeStock : i \in {j \in rows : rs[j].Code = c}})]
          : c \in {rs[i].Code : i \in rows}}

\* PeriodTotals with the start date left out of the window
\* (Date > start AND Date <= end).
PeriodTotals_ExclusiveStart(cmb, start, end) ==
    LET InWindow(x) == x.Date > start /\ x.Date <= end
    IN  {[Code |-> c,
          Total_Received |->
              SumWhere(cmb, [x \in {y \in DOMAIN cmb : InWindow(y) /\ y.Code = c}
                               |-> x.Received_Qty]),
          Total_Sales |->
              SumWhere(cmb, [x \in {y \in DOMAIN cmb : InWindow(y) /\ y.Code = c}
                               |-> x.Sales_Qty])]
          : c \in {x.Code : x \in {y \in DOMAIN cmb : InWindow(y)}}}

\* PeriodTotals: SUM(Received_Qty), SUM(Sales_Qty) of the Combined rows
\* WHERE Date BETWEEN start AND end, GROUP BY Code.
PeriodTotals(cmb, start, end) ==
    LET InWindow(x) == x.Date >= start /\ x.Date <= end
    IN  {[Code |-> c,
          Total_Received |->
              SumWhere(cmb, [x \in {y \in DOMAIN cmb : InWindow(y) /\ y.Code = c}
                               |-> x.Received_Qty]),
          Total_Sales |->
              SumWhere(cmb, [x \in {y \in DOMAIN cmb : InWindow(y) /\ y.Code = c}
                               |-> x.Sales_Qty])]
          : c \in {x.Code : x \in {y \in DOMAIN cmb : InWindow(y)}}}

\* SummaryRow with Total_Sales added to Stock instead of subtracted.
SummaryRow_SalesAdded(code, prev, received, sales) ==
    [Code |-> code, Previous_Stock |-> prev, Total_Received |-> received,
     Total_Sales |-> sales, Stock |-> prev + received + sales]

\* One row of the final SELECT: COALESCE(.., 0) of the three columns and
\* Stock computed from them.
SummaryRow(code, prev, received, sales) ==
    [Code |-> code, Previous_Stock |-> prev, Total_Received |-> received,
     Total_Sales |-> sales, Stock |-> prev + received - sales]

\* FinalSelect as a RIGHT JOIN: a code of PrevStock without a row in
\* PeriodTotals gives no row.
FinalSelect_RightJoin(p, t) ==
    BagOfPairs(
      {<<SummaryRow(x[1].Code, x[1].Previous_Stock, x[2].Total_Received, x[2].Total_Sales),
         1, x>>
          : x \in {y \in p \X t : CodeEq(y[1].Code, y[2].Code)}}
      \cup
      {<<SummaryRow(x.Code, 0, x.Total_Received, x.Total_Sales), 1, <<x>>>>
          : x \in {y \in t : \A z \in p : ~CodeEq(z.Code, y.Code)}})

\* The rows of PrevStock p FULL OUTER JOIN PeriodTotals t ON p.Code = t.Code,
\* as a bag: a NULL Code matches nothing, so the NULL group of p and the
\* NULL group of t give a row each.
FinalSelect(p, t) ==
    BagOfPairs(
      {<<SummaryRow(x[1].Code, x[1].Previous_Stock, x[2].Total_Received, x[2].Total_Sales),
         1, x>>
          : x \in {y \in p \X t : CodeEq(y[1].Code, y[2].Code)}}
      \cup
      {<<SummaryRow(x.Code, x.Previous_Stock, 0, 0), 1, <<x>>>>
          : x \in {y \in p : \A z \in t : ~CodeEq(y.Code, z.Code)}}
      \cup
      {<<SummaryRow(x.Code, 0, x.Total_Received, x.Total_Sales), 1, <<x>>>>
          : x \in {y \in t : \A z \in p : ~CodeEq(z.Code, y.Code)}})

\* ORDER BY Code: the rows of a bag as a sequence, smallest Code first.
RECURSIVE OrderByCode(_)
OrderByCode(rows) ==
    IF DOMAIN rows = {} THEN <<>>
    ELSE LET x == CHOOSE x \in DOMAIN rows :
                      \A y \in DOMAIN rows : ~CodeLess(y.Code, x.Code)
         IN  <<x>> \o OrderByCode(rows (-) SetToBag({x}))

\* df[df['Code'].str.contains(search_code, case=False, na=False)], applied
\* when search_code is not empty.
\* SearchFilter with na=True: the rows without a Code pass the filter.
SearchFilter_KeepsNa(rows, search) ==
    IF search # ""
    THEN SelectSeq(rows, LAMBDA x : x.Code = NullCode \/ StrContains(x.Code, search))
    ELSE rows

SearchFilter(rows, search) ==
    IF search # "" THEN SelectSeq(rows, LAMBDA x : StrContains(x.Code, search))
    ELSE rows

\* con.execute(query, ...) raises instead of returning rows when a cast of
\* the statement fails: CAST(.. AS DATE) on a text that is no date,
\* CAST(Qty AS DECIMAL) on a text that is no number, and the arithmetic on
\* Received_Qty when COALESCE(Received_Qty, 0) is such a text.  The casts
\* are applied to every row of the four tables (no WHERE in the CTEs).
QueryRaises(R, A, S, C) ==
    \/ \E x \in DOMAIN R : x.Received_Date = TextCell \/ x.Received_Qty = TextCell
    \/ \E x \in DOMAIN A : x.Adjuctment_Date = TextCell \/ x.Adjustment_Qty = TextCell
    \/ \E x \in DOMAIN S : x.Sales_Date = TextCell \/ x.Qty = TextCell
    \/ \E x \in DOMAIN C : x.Date = TextCell \/ x.Qty = TextCell

\* get_inventory_summary(start_date, end_date, search_code) on the tables
\* R, A, S, C when the engine meets the rows of Combined in the order ord:
\* the data frame it returns.
InventoryQuery(cmb, ord, start, end, search) ==
    LET rs == RunningStock(ord)
        p == PrevStock(rs, CastAsDate(Strftime(start)))
        t == PeriodTotals(cmb, CastAsDate(Strftime(start)), CastAsDate(Strftime(end)))
    IN  SearchFilter(OrderByCode(FinalSelect(p, t)), search)

get_inventory_summary(R, A, S, C, ord, start, end, search) ==
    InventoryQuery(Combined(R, A, S, C), ord, start, end, search)

(***************************************************************************)
(* The database.  The page only reads the four tables; what they hold is  *)
(* what the downloaded file holds.  An event set is a bag of events, each *)
(* a row of one of the four tables.                                        *)
(***************************************************************************)
Events ==
    [src : {"Received", "Sales", "CostCenter"}, Date : Dates, Code : Codes, Qty : Qtys]
    \cup [src : {"Adjustment"}, Date : Dates, Code : Codes, Qty : AdjustmentQtys]

RECURSIVE EventBags(_)
\* The bags of exactly n events.
EventBags(n) ==
    IF n = 0 THEN {EmptyBag}
    ELSE {b (+) SetToBag({e}) : b \in EventBags(n - 1), e \in Events}

EventSets == UNION {EventBags(n) : n \in 0..MaxRows}

\* The example event set of code ABC: Received 100 on 2024-01-01, Sales 30
\* on 2024-01-05, Sales 20 on 2024-01-10, Received 10 on 2024-01-15.
ExampleEvents ==
    SetToBag({[src |-> "Received", Date |-> 1, Code |-> "ABC", Qty |-> 100],
              [src |-> "Sales", Date |-> 5, Code |-> "ABC", Qty |-> 30],
              [src |-> "Sales", Date |-> 10, Code |-> "ABC", Qty |-> 20],
              [src |-> "Received", Date |-> 15, Code |-> "ABC", Qty |-> 10]})

\* The four tables that hold an event set.
ReceivedOf(ev) ==
    BagOfPairs({<<[Received_Date |-> e.Date, Code |-> e.Code, Received_Qty |-> e.Qty],
                  ev[e], e>> : e \in {x \in DOMAIN ev : x.src = "Received"}})

AdjustmentOf(ev) ==
    BagOfPairs({<<[Adjuctment_Date |-> e.Date, Code |-> e.Code, Adjustment_Qty |-> e.Qty],
                  ev[e], e>> : e \in {x \in DOMAIN ev : x.src = "Adjustment"}})

SalesOf(ev) ==
    BagOfPairs({<<[Sales_Date |-> e.Date, Code |-> e.Code, Qty |-> e.Qty],
                  ev[e], e>> : e \in {x \in DOMAIN ev : x.src = "Sales"}})

CostCenterOf(ev) ==
    BagOfPairs({<<[Date |-> e.Date, Code |-> e.Code, Qty |-> e.Qty],
                  ev[e], e>> : e \in {x \in DOMAIN ev : x.src = "CostCenter"}})

\* The window of the example: [2024-01-06, 2024-01-12].
ExampleWindow == <<6, 12>>

\* What the two date inputs can give: any two days of the model, or the
\* window of the example.
Windows == (Dates \X Dates) \cup {ExampleWindow}

Init ==
    /\ \E ev \in EventSets \cup {ExampleEvents} :
          /\ Received = ReceivedOf(ev)
          /\ Adjustment = AdjustmentOf(ev)
          /\ Sales = SalesOf(ev)
          /\ CostCenter = CostCenterOf(ev)
    /\ start_date = 1
    /\ end_date = 1
    /\ search_code = ""
    /\ runningStock = <<>>
    /\ df = <<>>
    /\ shown = "nothing"
    /\ selected_table = "Inventory Summary"
    /\ executed = "none"
    /\ cache = <<>>
    /\ ProductsWithCode = EmptyBag
    /\ page = [s \in Sessions |-> "Stock_Register"]
    /\ stmt = [s \in Sessions |-> "none"]
    /\ DashboardAtRest

(***************************************************************************)
(* One run of the page with "Inventory Summary" selected and             *)
(* start_date <= end_date (lines 256-295): the date inputs give start and *)
(* end, the text input gives a search text of texts.  An exception of     *)
(* con.execute is not caught: the run ends with the exception shown.      *)
(* The call is the first one with its arguments, so the memo of           *)
(* st.cache_data has no entry for it (StockRegisterRun has the memo).     *)
(***************************************************************************)
\* The guard of the page with start < end in place of start <= end.
DateRangeOk_Strict(start, end) == start < end

\* if start_date <= end_date (line 256).
DateRangeOk(start, end) == start <= end

InventorySummaryRun(texts) ==
    IF QueryRaises(Received, Adjustment, Sales, CostCenter)
    THEN \E w \in Windows, search \in texts :
           /\ DateRangeOk(w[1], w[2])
           /\ runningStock' = <<>>
           /\ df' = <<>>
           /\ start_date' = w[1]
           /\ end_date' = w[2]
           /\ search_code' = search
           /\ shown' = "exception"
           /\ executed' = "get_inventory_summary"
           /\ UNCHANGED <<database, selected_table, cache, sessionVars, dashVars>>
    ELSE LET cmb == Combined(Received, Adjustment, Sales, CostCenter) IN
         \E ord \in TieOrders(cmb) :
         \E w \in Windows, search \in texts :
           LET start == w[1]
               end == w[2]
           IN
           /\ DateRangeOk(start, end)
           /\ runningStock' = RunningStock(ord)
           /\ df' = InventoryQuery(cmb, ord, start, end, search)
           /\ start_date' = start
           /\ end_date' = end
           /\ search_code' = search
           /\ shown' = IF df' # <<>> THEN "dataframe" ELSE "warning"
           /\ executed' = "get_inventory_summary"
           /\ UNCHANGED <<database, selected_table, cache, sessionVars, dashVars>>

InventorySummaryView == InventorySummaryRun(SearchTexts)

Next == InventorySummaryView

Spec == Init /\ [][Next]_vars

(***************************************************************************)
(* The summary on tables with cells that hold no value: a NULL or         *)
(* non-numeric quantity, a NULL product code, a date that cannot be       *)
(* parsed.  The event sets have one or two rows, and the search box is    *)
(* empty or holds "b".                                                     *)
(***************************************************************************)
CellEvents ==
    [src : {"Received", "Adjustment", "Sales", "CostCenter"},
     Date : Dates \cup {TextCell},
     Code : {"ABC", NullCode},
     Qty : Qtys \cup {NullCell, TextCell}]

CellEventSets ==
    {EmptyBag} \cup {SetToBag({e}) (+) SetToBag({f}) : e \in CellEvents, f \in CellEvents}
               \cup {SetToBag({e}) : e \in CellEvents}

CellSearchTexts == {"", "b"}

InitCells ==
    /\ \E ev \in CellEventSets :
          /\ Received = ReceivedOf(ev)
          /\ Adjustment = AdjustmentOf(ev)
          /\ Sales = SalesOf(ev)
          /\ CostCenter = CostCenterOf(ev)
    /\ start_date = 1
    /\ end_date = 1
    /\ search_code = ""
    /\ runningStock = <<>>
    /\ df = <<>>
    /\ shown = "nothing"
    /\ selected_table = "Inventory Summary"
    /\ executed = "none"
    /\ cache = <<>>
    /\ ProductsWithCode = EmptyBag
    /\ page = [s \in Sessions |-> "Stock_Register"]
    /\ stmt = [s \in Sessions |-> "none"]
    /\ DashboardAtRest

InventorySummarySearch == InventorySummaryRun(CellSearchTexts)

NextCells == InventorySummarySearch

SpecCells == InitCells /\ [][NextCells]_vars

(***************************************************************************)
(* The summary with a search text over well-typed tables of inflow events: *)
(* up to two Received or Adjustment rows, a write-off included, so that    *)
(* rows of one (Code, Date) can tie in the window ORDER BY.                *)
(***************************************************************************)
SearchEvents == {e \in Events : e.src \in {"Received", "Adjustment"}}

SearchEventSets ==
    {EmptyBag} \cup {SetToBag({e}) (+) SetToBag({f}) : e \in SearchEvents, f \in SearchEvents}
               \cup {SetToBag({e}) : e \in SearchEvents}

InitSearch ==
    /\ \E ev \in SearchEventSets :
          /\ Received = ReceivedOf(ev)
          /\ Adjustment = AdjustmentOf(ev)
          /\ Sales = SalesOf(ev)
          /\ CostCenter = CostCenterOf(ev)
    /\ start_date = 1
    /\ end_date = 1
    /\ search_code = ""
    /\ runningStock = <<>>
    /\ df = <<>>
    /\ shown = "nothing"
    /\ selected_table = "Inventory Summary"
    /\ executed = "none"
    /\ cache = <<>>
    /\ ProductsWithCode = EmptyBag
    /\ page = [s \in Sessions |-> "Stock_Register"]
    /\ stmt = [s \in Sessions |-> "none"]
    /\ DashboardAtRest

NextSearch == InventorySummarySearch

SpecSearch == InitSearch /\ [][NextSearch]_vars

(***************************************************************************)
(* The four per-source getters (lines 33-119).  Each runs one SELECT on   *)
(* its table: the rows dated in [start, end], grouped by (date, Code),    *)
(* the quantity summed, ORDER BY Date, Code.                               *)
(***************************************************************************)
\* The grouped rows of table T with date column dateCol and quantity column
\* qtyCol.
GroupedSource(T, dateCol, qtyCol, start, end) ==
    LET rows == {x \in DOMAIN T : x[dateCol] >= start /\ x[dateCol] <= end}
    IN  {[Date |-> k[1], Code |-> k[2],
          Qty |-> SqlSumWhere(T, [x \in {y \in rows : y[dateCol] = k[1] /\ y.Code = k[2]}
                                   |-> CastAsDecimal(x[qtyCol])])]
          : k \in {<<x[dateCol], x.Code>> : x \in rows}}

\* ORDER BY Date, Code.
RECURSIVE OrderByDateCode(_)
OrderByDateCode(rows) ==
    IF rows = {} THEN <<>>
    ELSE LET x == CHOOSE x \in rows :
                      \A y \in rows :
                          x.Date < y.Date
                            \/ (x.Date = y.Date /\ ~CodeLess(y.Code, x.Code))
         IN  <<x>> \o OrderByDateCode(rows \ {x})

\* pd.to_datetime(date) is the timestamp of midnight of the date;
\* .dt.date is its date part.
PdToDatetime(d) == <<d, 0>>
DtDate(ts) == ts[1]

\* The data frame of a getter before its quantity column gets its name:
\* the statement, the Date column through pd.to_datetime(..).dt.date, the
\* search filter.
SourceFrame(T, dateCol, qtyCol, start, end, search) ==
    LET res == OrderByDateCode(GroupedSource(T, dateCol, qtyCol,
                                             CastAsDate(Strftime(start)),
                                             CastAsDate(Strftime(end))))
        dated == [i \in 1..Len(res) |->
                    [res[i] EXCEPT !.Date = DtDate(PdToDatetime(res[i].Date))]]
    IN  SearchFilter(dated, search)

get_sales_data(S, start, end, search) ==
    LET f == SourceFrame(S, "Sales_Date", "Qty", start, end, search)
    IN  [i \in 1..Len(f) |-> [Date |-> f[i].Date, Code |-> f[i].Code,
                               Sales_Qty |-> f[i].Qty]]

get_cost_center_data(C, start, end, search) ==
    LET f == SourceFrame(C, "Date", "Qty", start, end, search)
    IN  [i \in 1..Len(f) |-> [Date |-> f[i].Date, Code |-> f[i].Code,
                               CostCenter_Qty |-> f[i].Qty]]

get_received_data(R, start, end, search) ==
    LET f == SourceFrame(R, "Received_Date", "Received_Qty", start, end, search)
    IN  [i \in 1..Len(f) |-> [Date |-> f[i].Date, Code |-> f[i].Code,
                               Received_Qty |-> f[i].Qty]]

get_adjustment_data(A, start, end, search) ==
    LET f == SourceFrame(A, "Adjuctment_Date", "Adjustment_Qty", start, end, search)
    IN  [i \in 1..Len(f) |-> [Date |-> f[i].Date, Code |-> f[i].Code,
                               Adjustment_Qty |-> f[i].Qty]]

(***************************************************************************)
(* The page script (lines 236-370).                                        *)
(***************************************************************************)
\* table_options: the entries of the select box and the getter each one
\* calls.
table_options ==
    [x \in {"Inventory Summary", "Sales", "Cost Center", "Received", "Adjustment"} |->
        CASE x = "Inventory Summary" -> "get_inventory_summary"
          [] x = "Sales" -> "get_sales_data"
          [] x = "Cost Center" -> "get_cost_center_data"
          [] x = "Received" -> "get_received_data"
          [] x = "Adjustment" -> "get_adjustment_data"]

\* The statement of getter fn fails on the tables of the state.
GetterRaises(fn) ==
    CASE fn = "get_inventory_summary" -> QueryRaises(Received, Adjustment, Sales, CostCenter)
      [] fn = "get_sales_data" -> QueryRaises(EmptyBag, EmptyBag, Sales, EmptyBag)
      [] fn = "get_cost_center_data" -> QueryRaises(EmptyBag, EmptyBag, EmptyBag, CostCenter)
      [] fn = "get_received_data" -> QueryRaises(Received, EmptyBag, EmptyBag, EmptyBag)
      [] fn = "get_adjustment_data" -> QueryRaises(EmptyBag, Adjustment, EmptyBag, EmptyBag)

\* The data frames getter fn can compute from the tables of the state (the
\* summary has one per tie order).
GetterResults(fn, start, end, search) ==
    CASE fn = "get_inventory_summary" ->
            LET cmb == Combined(Received, Adjustment, Sales, CostCenter)
            IN  {InventoryQuery(cmb, ord, start, end, search) : ord \in TieOrders(cmb)}
      [] fn = "get_sales_data" -> {get_sales_data(Sales, start, end, search)}
      [] fn = "get_cost_center_data" -> {get_cost_center_data(CostCenter, start, end, search)}
      [] fn = "get_received_data" -> {get_received_data(Received, start, end, search)}
      [] fn = "get_adjustment_data" -> {get_adjustment_data(Adjustment, start, end, search)}

\* The database after the statement of getter fn with every row of Sales
\* deleted.
AfterSelect_SalesDeleted(db, fn) ==
    IF fn = "none" THEN db ELSE <<db[1], db[2], EmptyBag, db[4], db[5]>>

\* The database after a run has executed the statement of getter fn ("none":
\* no statement): the five statements are SELECTs, which are read-only.
AfterSelect(db, fn) == db

\* The memo of st.cache_data holds at most MaxCache entries in the model.
MaxCache == 1

\* The tables of the page model: at most one event, of code ABC.
PageEventSets ==
    {ev \in EventBags(0) \cup EventBags(1) : \A e \in DOMAIN ev : e.Code = "ABC"}

PageWindows == Dates \X Dates

InitPage ==
    /\ \E ev \in PageEventSets :
          /\ Received = ReceivedOf(ev)
          /\ Adjustment = AdjustmentOf(ev)
          /\ Sales = SalesOf(ev)
          /\ CostCenter = CostCenterOf(ev)
    /\ start_date = 1
    /\ end_date = 1
    /\ search_code = ""
    /\ runningStock = <<>>
    /\ df = <<>>
    /\ shown = "nothing"
    /\ selected_table = "Inventory Summary"
    /\ executed = "none"
    /\ cache = <<>>
    /\ ProductsWithCode = EmptyBag
    /\ page = [s \in Sessions |-> "Stock_Register"]
    /\ stmt = [s \in Sessions |-> "none"]
    /\ DashboardAtRest

\* One run of the page script: the widgets give the table, the two dates
\* and the search text.  A getter decorated with st.cache_data returns the
\* memoized data frame when it was called with the same arguments before
\* and runs its statement otherwise.
StockRegisterRun ==
    \E table \in DOMAIN table_options, w \in PageWindows, search \in SearchTexts :
      LET fn == table_options[table]
          key == <<fn, w[1], w[2], search>>
      IN
      /\ selected_table' = table
      /\ start_date' = w[1]
      /\ end_date' = w[2]
      /\ search_code' = search
      /\ runningStock' = <<>>
      /\ IF DateRangeOk(w[1], w[2])
         THEN IF key \in DOMAIN cache
              THEN /\ df' = cache[key]
                   /\ executed' = "none"
                   /\ cache' = cache
                   /\ shown' = IF df' # <<>> THEN "dataframe" ELSE "warning"
              ELSE /\ Cardinality(DOMAIN cache) < MaxCache
                   /\ executed' = fn
                   /\ IF GetterRaises(fn)
                      THEN df' = <<>> /\ cache' = cache /\ shown' = "exception"
                      ELSE \E res \in GetterResults(fn, w[1], w[2], search) :
                             /\ df' = res
                             /\ cache' = (key :> res) @@ cache
                             /\ shown' = IF res # <<>> THEN "dataframe" ELSE "warning"
         ELSE /\ df' = <<>>
              /\ executed' = "none"
              /\ cache' = cache
              /\ shown' = "error"
      /\ Received' = AfterSelect(database, executed')[1]
      /\ Adjustment' = AfterSelect(database, executed')[2]
      /\ Sales' = AfterSelect(database, executed')[3]
      /\ CostCenter' = AfterSelect(database, executed')[4]
      /\ ProductsWithCode' = AfterSelect(database, executed')[5]
      /\ UNCHANGED <<sessionVars, dashVars>>

\* The "Refresh All Data" button of the sidebar (Home_Page.py lines
\* 313-315, the same on other pages): st.cache_data.clear().
RefreshAllData ==
    /\ cache # <<>>
    /\ cache' = <<>>
    /\ UNCHANGED <<dashVars, database, start_date, end_date, search_code, runningStock, df,
                   shown, selected_table, executed, sessionVars>>

\* The database gets other contents (the file is maintained outside the
\* dashboard; no page writes the four tables).
TablesChange ==
    /\ \E ev \in PageEventSets :
          /\ Received' = ReceivedOf(ev)
          /\ Adjustment' = AdjustmentOf(ev)
          /\ Sales' = SalesOf(ev)
          /\ CostCenter' = CostCenterOf(ev)
    /\ tables' # tables
    /\ UNCHANGED <<dashVars, start_date, end_date, search_code, runningStock, df, shown,
                   pageVars, ProductsWithCode, sessionVars>>

NextPage == StockRegisterRun \/ RefreshAllData \/ TablesChange

SpecPage == InitPage /\ [][NextPage]_vars

(***************************************************************************)
(* Several sessions.  Streamlit runs the script of every browser session  *)
(* in a thread of its own, and every page opens dispatch.duckdb through   *)
(* its own get_duckdb.  The Route By Route page                            *)
(* (src/pages/Route_By_Route_Dispatched.py) calls ensure_join_table(con)  *)
(* on every run of its script (line 67).                                   *)
(***************************************************************************)
Pages == {"Home_Page", "Stock_Register", "Route_By_Route_Dispatched"}

\* The Products table: the product master, one row per known code.
Products == SetToBag({[Code |-> "ABC", Description |-> "ABC"]})

\* The rows of CREATE OR REPLACE TABLE ProductsWithCode AS SELECT .. FROM
\* Sales s INNER JOIN Products p ON s.Code = p.Code (the Route column of
\* Sales is left out of the model).
ensure_join_table(S) ==
    BagOfPairs({<<[Code |-> x[1].Code, Qty |-> x[1].Qty, Sales_Date |-> x[1].Sales_Date,
                   Description |-> x[2].Description], S[x[1]] * Products[x[2]], x>>
                  : x \in {y \in (DOMAIN S) \X (DOMAIN Products) :
                              CodeEq(y[1].Code, y[2].Code)}})

InitSessions ==
    /\ \E ev \in PageEventSets :
          /\ Received = ReceivedOf(ev)
          /\ Adjustment = AdjustmentOf(ev)
          /\ Sales = SalesOf(ev)
          /\ CostCenter = CostCenterOf(ev)
    /\ \E w \in PageWindows :
          /\ DateRangeOk(w[1], w[2])
          /\ start_date = w[1]
          /\ end_date = w[2]
    /\ search_code = ""
    /\ runningStock = <<>>
    /\ df = <<>>
    /\ shown = "nothing"
    /\ selected_table = "Inventory Summary"
    /\ executed = "none"
    /\ cache = <<>>
    /\ ProductsWithCode = EmptyBag
    /\ page = [s \in Sessions |-> "Home_Page"]
    /\ stmt = [s \in Sessions |-> "none"]
    /\ DashboardAtRest

\* A session goes to another page.
SwitchPage ==
    \E s \in Sessions, p \in Pages :
      /\ stmt[s] = "none"
      /\ page[s] # p
      /\ page' = [page EXCEPT ![s] = p]
      /\ UNCHANGED <<dashVars, database, start_date, end_date, search_code, runningStock, df,
                     shown, pageVars, stmt>>

\* The script of a session on the Stock Register reaches con.execute of
\* get_inventory_summary (line 214): the SELECT starts.
SummaryBegin ==
    \E s \in Sessions :
      /\ page[s] = "Stock_Register"
      /\ stmt[s] = "none"
      /\ stmt' = [stmt EXCEPT ![s] = "select"]
      /\ UNCHANGED <<dashVars, database, start_date, end_date, search_code, runningStock, df,
                     shown, pageVars, page>>

\* The SELECT of a session ends and its run shows the result.
SummaryEnd ==
    \E s \in Sessions :
      /\ stmt[s] = "select"
      /\ stmt' = [stmt EXCEPT ![s] = "none"]
      /\ executed' = "get_inventory_summary"
      /\ runningStock' = <<>>
      /\ IF GetterRaises("get_inventory_summary")
         THEN df' = <<>> /\ shown' = "exception"
         ELSE \E res \in GetterResults("get_inventory_summary", start_date, end_date,
                                       search_code) :
                /\ df' = res
                /\ shown' = IF res # <<>> THEN "dataframe" ELSE "warning"
      /\ UNCHANGED <<dashVars, database, start_date, end_date, search_code, selected_table,
                     cache, page>>

\* The script of a session on the Route By Route page reaches con.execute
\* of ensure_join_table (line 50): CREATE OR REPLACE TABLE starts.
EnsureJoinTableBegin ==
    \E s \in Sessions :
      /\ page[s] = "Route_By_Route_Dispatched"
      /\ stmt[s] = "none"
      /\ stmt' = [stmt EXCEPT ![s] = "create"]
      /\ UNCHANGED <<dashVars, database, start_date, end_date, search_code, runningStock, df,
                     shown, pageVars, page>>

\* CREATE OR REPLACE TABLE ends: ProductsWithCode is replaced.  A failed
\* cast of Sales_Date is caught (lines 62-63) and leaves the table.
EnsureJoinTableEnd ==
    \E s \in Sessions :
      /\ stmt[s] = "create"
      /\ stmt' = [stmt EXCEPT ![s] = "none"]
      /\ ProductsWithCode' = IF \E x \in DOMAIN Sales : x.Sales_Date = TextCell
                             THEN ProductsWithCode
                             ELSE ensure_join_table(Sales)
      /\ UNCHANGED <<dashVars, tables, start_date, end_date, search_code, runningStock, df,
                     shown, pageVars, page>>

NextSessions ==
    \/ SwitchPage
    \/ SummaryBegin
    \/ SummaryEnd
    \/ EnsureJoinTableBegin
    \/ EnsureJoinTableEnd

SpecSessions == InitSessions /\ [][NextSessions]_vars

(***************************************************************************)
(* get_duckdb (Stock_Register.py lines 12-26, the same text in            *)
(* Top_Items_By_Dispatch.py 15-29 and Total_Dispatched_Chat.py 16-30).     *)
(* Each page has its own @st.cache_resource function, so the body of one  *)
(* page runs at most once at a time, and the bodies of different pages     *)
(* run side by side in the threads of their sessions.  The file is        *)
(* "absent", "writing" (created or truncated by open(.., "wb") and not    *)
(* yet closed by every page that opened it) or "complete".  boot[p] is    *)
(* the statement page p is about to execute; con[p] is what the file was  *)
(* when p called duckdb.connect ("none" before the call).                  *)
(***************************************************************************)
\* What stays as it is while get_duckdb runs.
bootFrame == <<database, start_date, end_date, search_code, runningStock, df, shown,
               pageVars, sessionVars, current_page, Orders>>

\* os.path.exists(db_filename): a file being written exists too.
Exists(f) == f # "absent"

InitBootstrap ==
    /\ Received = EmptyBag
    /\ Adjustment = EmptyBag
    /\ Sales = EmptyBag
    /\ CostCenter = EmptyBag
    /\ start_date = 1
    /\ end_date = 1
    /\ search_code = ""
    /\ runningStock = <<>>
    /\ df = <<>>
    /\ shown = "nothing"
    /\ selected_table = "Inventory Summary"
    /\ executed = "none"
    /\ cache = <<>>
    /\ ProductsWithCode = EmptyBag
    /\ page = [s \in Sessions |-> "Home_Page"]
    /\ stmt = [s \in Sessions |-> "none"]
    /\ file = "absent"
    /\ boot = [p \in BootPages |-> "start"]
    /\ con = [p \in BootPages |-> "none"]
    /\ current_page = [s \in Sessions |-> "Home"]
    /\ Orders = EmptyBag

\* if not os.path.exists(db_filename) (line 17).
CheckExists ==
    \E p \in BootPages :
      /\ boot[p] = "start"
      /\ boot' = [boot EXCEPT ![p] = IF Exists(file) THEN "connect" ELSE "request"]
      /\ UNCHANGED <<bootFrame, file, con>>

\* resp = requests.get(url) and the test of resp.status_code (lines 19-22):
\* st.stop() ends the run on any status but 200.
Download ==
    \E p \in BootPages, status_code \in {200, 404} :
      /\ boot[p] = "request"
      /\ boot' = [boot EXCEPT ![p] = IF status_code # 200 THEN "stopped" ELSE "open"]
      /\ UNCHANGED <<bootFrame, file, con>>

\* open(db_filename, "wb") (line 23) creates the file or truncates it.
OpenForWrite ==
    \E p \in BootPages :
      /\ boot[p] = "open"
      /\ boot' = [boot EXCEPT ![p] = "write"]
      /\ file' = "writing"
      /\ UNCHANGED <<bootFrame, con>>

\* f.write(resp.content) and the end of the with block (lines 23-24).
WriteAndClose ==
    \E p \in BootPages :
      /\ boot[p] = "write"
      /\ boot' = [boot EXCEPT ![p] = "connect"]
      /\ file' = IF \E q \in BootPages \ {p} : boot[q] = "write"
                 THEN "writing" ELSE "complete"
      /\ UNCHANGED <<bootFrame, con>>

\* return duckdb.connect(db_filename) (line 26); st.cache_resource keeps
\* the connection for every later run of the page.
Connect ==
    \E p \in BootPages :
      /\ boot[p] = "connect"
      /\ boot' = [boot EXCEPT ![p] = "connected"]
      /\ con' = [con EXCEPT ![p] = file]
      /\ UNCHANGED <<bootFrame, file>>

\* The next run of a page that st.stop() ended: nothing was cached, so
\* get_duckdb runs again.
RunAgain ==
    \E p \in BootPages :
      /\ boot[p] = "stopped"
      /\ boot' = [boot EXCEPT ![p] = "start"]
      /\ UNCHANGED <<bootFrame, file, con>>

\* The server process starts anew between runs: the cached connections
\* are gone, the file stays on disk.
ServerRestart ==
    /\ \A p \in BootPages : boot[p] \in {"start", "stopped", "connected"}
    /\ \E p \in BootPages : boot[p] # "start"
    /\ boot' = [p \in BootPages |-> "start"]
    /\ con' = [p \in BootPages |-> "none"]
    /\ UNCHANGED <<bootFrame, file>>

NextBootstrap ==
    \/ CheckExists
    \/ Download
    \/ OpenForWrite
    \/ WriteAndClose
    \/ Connect
    \/ RunAgain
    \/ ServerRestart

SpecBootstrap == InitBootstrap /\ [][NextBootstrap]_vars

(***************************************************************************)
(* The navigation radio (Home_Page.py lines 272-299; the pages repeat it, *)
(* Route_By_Route_Dispatched.py lines 253-283).  page[s] is the page       *)
(* session s is viewing, current_page[s] the label kept in its             *)
(* st.session_state.  Three of the nine labels are modelled, without their *)
(* emoji.  The Stock Register has no radio and no label; it is reached     *)
(* through the sidebar menu Streamlit builds from the pages directory     *)
(* (SwitchPage).                                                           *)
(***************************************************************************)
page_configs ==
    [label \in {"Home", "Route By Route Dispatch", "Top Items By Dispatch"} |->
        CASE label = "Home" -> "Home_Page"
          [] label = "Route By Route Dispatch" -> "Route_By_Route_Dispatched"
          [] label = "Top Items By Dispatch" -> "Top_Items_By_Dispatch"]

\* The script of page p has the radio.
HasNavigation(p) == p # "Stock_Register"

\* Where session s is after it picked selected_page in the radio of the
\* page it is on: Home_Page.py does not switch for the Home label (line
\* 293); everywhere else st.switch_page is called, and a call that raises
\* leaves the session on its page.
AfterSwitch(p, selected_page, raises) ==
    IF p = "Home_Page" /\ selected_page = "Home" THEN p
    ELSE IF raises THEN p
    ELSE page_configs[selected_page]

InitNavigation ==
    /\ Received = EmptyBag
    /\ Adjustment = EmptyBag
    /\ Sales = EmptyBag
    /\ CostCenter = EmptyBag
    /\ start_date = 1
    /\ end_date = 1
    /\ search_code = ""
    /\ runningStock = <<>>
    /\ df = <<>>
    /\ shown = "nothing"
    /\ selected_table = "Inventory Summary"
    /\ executed = "none"
    /\ cache = <<>>
    /\ ProductsWithCode = EmptyBag
    /\ page = [s \in Sessions |-> "Home_Page"]
    /\ stmt = [s \in Sessions |-> "none"]
    /\ DashboardAtRest

\* The run after the user picks another label in the radio: selected_page
\* differs from current_page, which is assigned before st.switch_page is
\* tried (lines 290-299).
SelectPage ==
    \E s \in Sessions, selected_page \in DOMAIN page_configs, raises \in BOOLEAN :
      /\ stmt[s] = "none"
      /\ HasNavigation(page[s])
      /\ selected_page # current_page[s]
      /\ current_page' = [current_page EXCEPT ![s] = selected_page]
      /\ page' = [page EXCEPT ![s] = AfterSwitch(page[s], selected_page, raises)]
      /\ UNCHANGED <<database, start_date, end_date, search_code, runningStock, df,
                     shown, pageVars, stmt, file, boot, con, Orders>>

NextNavigation == SelectPage \/ SwitchPage

SpecNavigation == InitNavigation /\ [][NextNavigation]_vars

(***************************************************************************)
(* The Orders vs Sales page (Sales_Vs_Orders.py lines 150-208).  Its      *)
(* database has a Sales and an Orders table with the columns Code,        *)
(* Sales_Date and Qty.  A Sales_Date cell is a point in time <<day, hour>> *)
(* that CAST(.. AS DATE) takes to its day; Sales.Code holds numbers and   *)
(* Orders.Code their text, the two types that astype(str) (lines 180-181) *)
(* brings together.                                                        *)
(***************************************************************************)
Hours == {0, 12}
CodeNumbers == {7, 8}

OrderEvents ==
    [src : {"Sales", "Orders"}, Date : Dates, Hour : Hours, Code : CodeNumbers, Qty : Qtys]

OrderEventSets ==
    {EmptyBag} \cup {SetToBag({e}) (+) SetToBag({f}) : e \in OrderEvents, f \in OrderEvents}
               \cup {SetToBag({e}) : e \in OrderEvents}

\* The Sales and the Orders table that hold an event set.
SalesTableOf(ev) ==
    BagOfPairs({<<[Code |-> e.Code, Sales_Date |-> <<e.Date, e.Hour>>, Qty |-> e.Qty],
                  ev[e], e>> : e \in {x \in DOMAIN ev : x.src = "Sales"}})

OrdersTableOf(ev) ==
    BagOfPairs({<<[Code |-> ToString(e.Code), Sales_Date |-> <<e.Date, e.Hour>>,
                   Qty |-> e.Qty],
                  ev[e], e>> : e \in {x \in DOMAIN ev : x.src = "Orders"}})

\* CAST(Sales_Date AS DATE) of a point in time: its day.
CastTimeAsDate(ts) == ts[1]

\* CAST(Qty AS INTEGER) of a whole quantity.
CastAsInteger(q) == q

\* sales_query / orders_query (lines 152-170) on table T: the rows whose
\* day is BETWEEN start AND end, GROUP BY Code, Sales_Date.  A name in GROUP
\* BY that is a column of the table is that column, not the alias of the
\* SELECT list, so a group is one Code at one Sales_Date cell; each group
\* gives a row (Code, day of the cell, SUM of Qty).
FetchQuery(T, start, end) ==
    LET rows == {x \in DOMAIN T : /\ CastTimeAsDate(x.Sales_Date) >= start
                                  /\ CastTimeAsDate(x.Sales_Date) <= end}
    IN  BagOfPairs(
          {<<[Code |-> k[1], Sales_Date |-> CastTimeAsDate(k[2]),
              Total |-> SumWhere(T, [x \in {y \in rows : y.Code = k[1]
                                                        /\ y.Sales_Date = k[2]}
                                       |-> CastAsInteger(x.Qty)])], 1, k>>
             : k \in {<<x.Code, x.Sales_Date>> : x \in rows}})

\* fetch_data(start, end) (lines 150-175): the two data frames.
fetch_data(S, O, start, end) == <<FetchQuery(S, start, end), FetchQuery(O, start, end)>>

\* df['Code'].astype(str) (lines 180-181): a number becomes its numeral, a
\* text stays.
AsTypeStr(frame, isNumber) ==
    BagOfPairs({<<[x EXCEPT !.Code = IF isNumber THEN ToString(x.Code) ELSE x.Code],
                  frame[x], x>> : x \in DOMAIN frame})

\* orders_df.merge(sales_df, on=['Code', 'Sales_Date'], how='outer',
\* suffixes=('_Orders', '_Sales')).fillna(0) (lines 184-189): every pair of
\* an orders row and a sales row with equal keys, and every row without a
\* partner with 0 for the other side.
Merge_Inner(orders_df, sales_df) ==
    BagOfPairs(
       {<<[Code |-> o.Code, Sales_Date |-> o.Sales_Date,
           Total_Orders |-> o.Total, Total_Sales |-> x.Total],
          orders_df[o] * sales_df[x], <<o, x>>>>
          : <<o, x>> \in {p \in (DOMAIN orders_df) \X (DOMAIN sales_df) :
                            p[1].Code = p[2].Code /\ p[1].Sales_Date = p[2].Sales_Date}})

Merge(orders_df, sales_df) ==
    LET Key(r) == <<r.Code, r.Sales_Date>>
        oKeys == {Key(o) : o \in DOMAIN orders_df}
        sKeys == {Key(x) : x \in DOMAIN sales_df}
    IN  Merge_Inner(orders_df, sales_df)
        (+) BagOfPairs({<<[Code |-> o.Code, Sales_Date |-> o.Sales_Date,
                           Total_Orders |-> o.Total, Total_Sales |-> 0],
                          orders_df[o], o>>
                          : o \in {y \in DOMAIN orders_df : Key(y) \notin sKeys}})
        (+) BagOfPairs({<<[Code |-> x.Code, Sales_Date |-> x.Sales_Date,
                           Total_Orders |-> 0, Total_Sales |-> x.Total],
                          sales_df[x], x>>
                          : x \in {y \in DOMAIN sales_df : Key(y) \notin oKeys}})

\* merged_df['Difference'] = Total_Sales - Total_Orders (line 191).
WithDifference(merged) ==
    BagOfPairs({<<[Code |-> r.Code, Sales_Date |-> r.Sales_Date,
                   Total_Orders |-> r.Total_Orders, Total_Sales |-> r.Total_Sales,
                   Difference |-> r.Total_Sales - r.Total_Orders],
                  merged[r], r>> : r \in DOMAIN merged})

\* merged_df[merged_df['Code'].isin(selected_codes_str)] when a filter other
\* than "All Codes" has a selection (lines 194-197); "" stands for no
\* selection.
CodeFilter(merged, selected) ==
    IF selected # ""
    THEN BagOfPairs({<<r, merged[r], r>> : r \in {y \in DOMAIN merged : y.Code = selected}})
    ELSE merged

\* The number a numeral of the model stands for; numerals of one digit
\* compare as text the way their numbers compare.
NumeralValue(str) == CHOOSE n \in 0..9 : ToString(n) = str

\* Row x does not come after row y under
\* sort_values(['Sales_Date', 'Code'], ascending=[False, True]).
SortKeyLeq(x, y) ==
    \/ x.Sales_Date > y.Sales_Date
    \/ /\ x.Sales_Date = y.Sales_Date
       /\ NumeralValue(x.Code) <= NumeralValue(y.Code)

RECURSIVE SortValues(_)
\* The sorted frames sort_values can give (line 199); rows with equal keys
\* keep the order the merge gave them, which the queries leave open.
SortValues(B) ==
    IF DOMAIN B = {} THEN {<<>>}
    ELSE LET first == {x \in DOMAIN B : \A y \in DOMAIN B : SortKeyLeq(x, y)}
         IN  UNION {{<<x>> \o o : o \in SortValues(B (-) SetToBag({x}))} : x \in first}

\* display_df (lines 202-208): the columns renamed, the numbers as int.
DisplayRow(r) ==
    [Code |-> r.Code, Date |-> r.Sales_Date, Orders_Qty |-> r.Total_Orders,
     Sales_Qty |-> r.Total_Sales, Difference |-> r.Difference]

\* The difference tables the page can show for the tables S and O.
DifferenceTables(S, O, start, end, selected) ==
    LET frames == fetch_data(S, O, start, end)
        sales_df == AsTypeStr(frames[1], TRUE)
        orders_df == AsTypeStr(frames[2], FALSE)
        merged == CodeFilter(WithDifference(Merge(orders_df, sales_df)), selected)
    IN  {[i \in 1..Len(q) |-> DisplayRow(q[i])] : q \in SortValues(merged)}

InitOrders ==
    /\ \E ev \in OrderEventSets :
          /\ Sales = SalesTableOf(ev)
          /\ Orders = OrdersTableOf(ev)
    /\ Received = EmptyBag
    /\ Adjustment = EmptyBag
    /\ CostCenter = EmptyBag
    /\ start_date = 1
    /\ end_date = 1
    /\ search_code = ""
    /\ runningStock = <<>>
    /\ df = <<>>
    /\ shown = "nothing"
    /\ selected_table = "Inventory Summary"
    /\ executed = "none"
    /\ cache = <<>>
    /\ ProductsWithCode = EmptyBag
    /\ page = [s \in Sessions |-> "Sales_Vs_Orders"]
    /\ stmt = [s \in Sessions |-> "none"]
    /\ file = "complete"
    /\ boot = [p \in BootPages |-> "connected"]
    /\ con = [p \in BootPages |-> "complete"]
    /\ current_page = [s \in Sessions |-> "Home"]

\* One run of the page: the date inputs, the guard start_date > end_date
\* (lines 113-115), fetch_data, the merge and the table.  The memo of
\* st.cache_data is cleared at the top of every run (line 12), so the
\* queries are executed each time.
OrdersVsSalesRun ==
    \E w \in PageWindows, selected \in {"", "7"} :
      /\ start_date' = w[1]
      /\ end_date' = w[2]
      /\ search_code' = selected
      /\ IF w[1] > w[2]
         THEN df' = <<>> /\ shown' = "error"
         ELSE /\ df' \in DifferenceTables(Sales, Orders, w[1], w[2], selected)
              /\ shown' = "dataframe"
      /\ executed' = "fetch_data"
      /\ UNCHANGED <<database, Orders, runningStock, selected_table, cache, sessionVars,
                     file, boot, con, current_page>>

NextOrders == OrdersVsSalesRun

SpecOrders == InitOrders /\ [][NextOrders]_vars

(***************************************************************************)
(* Reference quantities of the claims, summed row by row from the four    *)
(* tables of the state.                                                    *)
(***************************************************************************)
\* The page has run the summary at least once.
Ran == shown # "nothing"

\* Received and Adjustment quantities of code c on the days of D.
InflowOn(c, D) ==
      SumWhere(Received, [x \in {y \in DOMAIN Received :
                                   y.Code = c /\ y.Received_Date \in D}
                            |-> x.Received_Qty])
    + SumWhere(Adjustment, [x \in {y \in DOMAIN Adjustment :
                                     y.Code = c /\ y.Adjuctment_Date \in D}
                              |-> x.Adjustment_Qty])

\* Sales and CostCenter quantities of code c on the days of D.
OutflowOn(c, D) ==
      SumWhere(Sales, [x \in {y \in DOMAIN Sales : y.Code = c /\ y.Sales_Date \in D}
                         |-> x.Qty])
    + SumWhere(CostCenter, [x \in {y \in DOMAIN CostCenter : y.Code = c /\ y.Date \in D}
                              |-> x.Qty])

\* The days strictly before day d (day 1 is the first day of the model).
DaysBefore(d) == 1..(d - 1)

\* The balance of code c from all events dated strictly before day d.
BalanceBefore(c, d) == InflowOn(c, DaysBefore(d)) - OutflowOn(c, DaysBefore(d))

\* The summary of the tables of the state for another window or tie order.
Summary(ord, start, end) ==
    get_inventory_summary(Received, Adjustment, Sales, CostCenter,
                          ord, start, end, search_code)

OrdersNow == TieOrders(Combined(Received, Adjustment, Sales, CostCenter))

\* Column col of the row of code c in data frame d; 0 when d has no such row.
ColumnOf(d, c, col) ==
    IF \E i \in 1..Len(d) : d[i].Code = c
    THEN d[CHOOSE i \in 1..Len(d) : d[i].Code = c][col]
    ELSE 0

PrevOf(d, c) == ColumnOf(d, c, "Previous_Stock")
ReceivedOfCode(d, c) == ColumnOf(d, c, "Total_Received")
SalesOfCode(d, c) == ColumnOf(d, c, "Total_Sales")
StockOf(d, c) == ColumnOf(d, c, "Stock")

IsExample ==
    /\ Received = ReceivedOf(ExampleEvents)
    /\ Adjustment = AdjustmentOf(ExampleEvents)
    /\ Sales = SalesOf(ExampleEvents)
    /\ CostCenter = CostCenterOf(ExampleEvents)

(***************************************************************************)
(* Properties of the summary, by claim id.                                 *)
(***************************************************************************)
\* C1: in every row the summary returns, Previous_Stock is the sum of the
\* signed quantities of that code dated strictly before the start date
\* (Received and Adjustment added, Sales and CostCenter subtracted), 0 when
\* there is none.
C1_PreviousStockIsBalanceBeforeStart ==
    Ran => \A i \in 1..Len(df) :
              df[i].Previous_Stock = BalanceBefore(df[i].Code, start_date)

\* C2: in every row the summary returns, Stock is exactly
\* Previous_Stock + Total_Received - Total_Sales.
C2_StockIdentity ==
    Ran => \A i \in 1..Len(df) :
              df[i].Stock = df[i].Previous_Stock + df[i].Total_Received - df[i].Total_Sales

\* C2 witness: a returned row whose three terms are all different from 0.
C2_Witness ==
    /\ Ran
    /\ \E i \in 1..Len(df) :
          /\ df[i].Previous_Stock # 0
          /\ df[i].Total_Received # 0
          /\ df[i].Total_Sales # 0

\* C3: on the example event set of ABC and the window [2024-01-06,
\* 2024-01-12] the summary has the row ABC with Previous_Stock 70,
\* Total_Received 0, Total_Sales 20 and Stock 50.
C3_ExampleABC ==
    (Ran /\ IsExample /\ <<start_date, end_date>> = ExampleWindow)
    => \E i \in 1..Len(df) :
          df[i] = [Code |-> "ABC", Previous_Stock |-> 70, Total_Received |-> 0,
                   Total_Sales |-> 20, Stock |-> 50]

\* C4: in every row the summary returns, Total_Received is the sum of the
\* code's Received and Adjustment quantities dated in [start, end] and
\* Total_Sales the sum of its Sales and CostCenter quantities dated in
\* [start, end], every source row counted once.
C4_TotalsCountEachRowOnce ==
    Ran => \A i \in 1..Len(df) :
              /\ df[i].Total_Received = InflowOn(df[i].Code, start_date..end_date)
              /\ df[i].Total_Sales = OutflowOn(df[i].Code, start_date..end_date)

\* C5: the running balance of the query has one point per (code, date):
\* no two rows of RunningStock share Code and Date.
C5_OneBalancePointPerCodeDate ==
    Ran => \A i, j \in 1..Len(runningStock) :
              (runningStock[i].Code = runningStock[j].Code
                 /\ runningStock[i].Date = runningStock[j].Date) => i = j

\* C6: the summary does not depend on the order in which rows of one
\* (code, date) are processed: every tie order gives the data frame that
\* was returned.
C6_TieOrderIndependent ==
    Ran => \A ord \in OrdersNow : Summary(ord, start_date, end_date) = df

\* C7: with the returned window read as [B+1, C], every window [A, C] with
\* A <= B gives every code the same Stock.
C7_StockOfSplitWindow ==
    Ran => \A A \in Dates : A < start_date =>
              \A ord \in OrdersNow : \A c \in Codes :
                  StockOf(Summary(ord, A, end_date), c) = StockOf(df, c)

\* C8: with the returned window read as [A, C], for every B with
\* A <= B < C and every code the Total_Received of [A, B] plus that of
\* [B+1, C] is the Total_Received returned, and likewise Total_Sales; a
\* code without a row counts as 0.
C8_TotalsAddOverSplit ==
    Ran => LET orders == OrdersNow
           IN  \A B \in start_date..(end_date - 1) :
                 \A o1 \in orders, o2 \in orders :
                   LET first == Summary(o1, start_date, B)
                       second == Summary(o2, B + 1, end_date)
                   IN  \A c \in Codes :
                         /\ ReceivedOfCode(first, c) + ReceivedOfCode(second, c)
                               = ReceivedOfCode(df, c)
                         /\ SalesOfCode(first, c) + SalesOfCode(second, c)
                               = SalesOfCode(df, c)

\* C8 witness: a returned window that splits into two parts in each of
\* which one code has both a received and a sold quantity.
C8_Witness ==
    /\ Ran
    /\ \E B \in start_date..(end_date - 1) : \E o \in OrdersNow : \E c \in Codes :
          LET first == Summary(o, start_date, B)
              second == Summary(o, B + 1, end_date)
          IN  /\ ReceivedOfCode(first, c) # 0 /\ ReceivedOfCode(second, c) # 0
              /\ SalesOfCode(first, c) # 0

\* The rows of table T whose date column col is before day d.
RowsBefore(T, d, col) ==
    LET keep == {x \in DOMAIN T : x[col] < d}
    IN  [x \in keep |-> T[x]]

\* C9: for the returned start date, Previous_Stock of every code is the
\* same for every end date, and the same when the events dated on or after
\* the start date are removed.
C9_PreviousStockIgnoresFuture ==
    Ran => \A c \in Codes :
              /\ \A e \in Dates : e >= start_date =>
                    \A ord \in OrdersNow :
                        PrevOf(Summary(ord, start_date, e), c) = PrevOf(df, c)
              /\ LET R == RowsBefore(Received, start_date, "Received_Date")
                     A == RowsBefore(Adjustment, start_date, "Adjuctment_Date")
                     S == RowsBefore(Sales, start_date, "Sales_Date")
                     C == RowsBefore(CostCenter, start_date, "Date")
                 IN  \A ord \in TieOrders(Combined(R, A, S, C)) :
                        PrevOf(get_inventory_summary(R, A, S, C, ord, start_date,
                                                     end_date, search_code), c)
                          = PrevOf(df, c)

\* C10: for a returned code whose events before the start date are only
\* Sales or CostCenter rows, Previous_Stock is minus the sum of those
\* quantities.
C10_NegativeBalanceVerbatim ==
    Ran => \A i \in 1..Len(df) :
              LET c == df[i].Code
                  before == DaysBefore(start_date)
              IN  (/\ \A x \in DOMAIN Received :
                          ~(x.Code = c /\ x.Received_Date \in before)
                   /\ \A x \in DOMAIN Adjustment :
                          ~(x.Code = c /\ x.Adjuctment_Date \in before)
                   /\ \/ \E x \in DOMAIN Sales : x.Code = c /\ x.Sales_Date \in before
                      \/ \E x \in DOMAIN CostCenter : x.Code = c /\ x.Date \in before)
                  => df[i].Previous_Stock = 0 - OutflowOn(c, before)

\* The codes that have an event of any of the four tables on a day of D.
CodesWithEventOn(D) ==
    {x.Code : x \in {y \in DOMAIN Received : y.Received_Date \in D}}
    \cup {x.Code : x \in {y \in DOMAIN Adjustment : y.Adjuctment_Date \in D}}
    \cup {x.Code : x \in {y \in DOMAIN Sales : y.Sales_Date \in D}}
    \cup {x.Code : x \in {y \in DOMAIN CostCenter : y.Date \in D}}

\* C11: with an empty search text the summary has exactly one row for
\* every code that has an event dated on or before the end date, and no
\* row for any other code; no code is in two rows.
C11_OneRowPerCodeWithEventUpToEnd ==
    (Ran /\ search_code = "") =>
        /\ {df[i].Code : i \in 1..Len(df)} = CodesWithEventOn(1..end_date)
        /\ \A i, j \in 1..Len(df) : df[i].Code = df[j].Code => i = j

\* C11 witness: a summary was returned for tables in which one code has
\* events only before the start date (a row from PrevStock alone) and
\* another code has events only after the end date (no row).
C11_Witness ==
    /\ Ran /\ search_code = ""
    /\ \E c \in Codes :
          /\ c \in CodesWithEventOn(DaysBefore(start_date))
          /\ c \notin CodesWithEventOn(start_date..MaxDate)
    /\ \E c \in Codes :
          /\ c \in CodesWithEventOn((end_date + 1)..MaxDate)
          /\ c \notin CodesWithEventOn(1..end_date)

\* What one more event e adds to the Stock of its code: its quantity for a
\* Received or Adjustment event (sign kept), minus its quantity for a Sales
\* or CostCenter event.
SignedQty(e) == IF e.src \in {"Received", "Adjustment"} THEN e.Qty ELSE 0 - e.Qty

\* C12: one more event e dated inside the returned window changes the
\* Stock of its code by exactly its signed quantity (plus for Received and
\* Adjustment, minus for Sales and CostCenter), whatever the tables hold.
C12_OneMoreEventMovesStockByItsQty ==
    Ran => \A e \in Events : (e.Date >= start_date /\ e.Date <= end_date) =>
              LET one == SetToBag({e})
                  R == Received (+) ReceivedOf(one)
                  A == Adjustment (+) AdjustmentOf(one)
                  S == Sales (+) SalesOf(one)
                  C == CostCenter (+) CostCenterOf(one)
              IN  \A ord \in TieOrders(Combined(R, A, S, C)) :
                     StockOf(get_inventory_summary(R, A, S, C, ord, start_date,
                                                   end_date, search_code), e.Code)
                       = StockOf(df, e.Code) + SignedQty(e)

\* The rows of table T that belong to code c.
RowsOfCode(T, c) ==
    LET keep == {x \in DOMAIN T : x.Code = c}
    IN  [x \in keep |-> T[x]]

\* The rows of data frame d for code c.
FrameRowsOf(d, c) == {d[i] : i \in {j \in 1..Len(d) : d[j].Code = c}}

\* C18: the row returned for a code c is the row the summary gives when
\* the tables hold the events of c alone: events of other codes change
\* nothing in it.
C18_CodesAreIndependent ==
    Ran => \A c \in Codes :
              LET R == RowsOfCode(Received, c)
                  A == RowsOfCode(Adjustment, c)
                  S == RowsOfCode(Sales, c)
                  C == RowsOfCode(CostCenter, c)
              IN  \A ord \in TieOrders(Combined(R, A, S, C)) :
                     FrameRowsOf(get_inventory_summary(R, A, S, C, ord, start_date,
                                                       end_date, search_code), c)
                       = FrameRowsOf(df, c)

(***************************************************************************)
(* Properties of the summary on cells without a value, by claim id.       *)
(***************************************************************************)
\* The page has shown the exception of a failed statement.
Failed == shown = "exception"

\* Some row of the four tables has a date that cannot be parsed.
HasBadDate ==
    \/ \E x \in DOMAIN Received : x.Received_Date = TextCell
    \/ \E x \in DOMAIN Adjustment : x.Adjuctment_Date = TextCell
    \/ \E x \in DOMAIN Sales : x.Sales_Date = TextCell
    \/ \E x \in DOMAIN CostCenter : x.Date = TextCell

\* Table T with every missing or non-numeric quantity of column col
\* replaced by 0.
ZeroedQtys(T, col) ==
    BagOfPairs({<<[x EXCEPT ![col] = IF x[col] \in {NullCell, TextCell} THEN 0 ELSE x[col]],
                  T[x], x>> : x \in DOMAIN T})

\* Some quantity of the four tables is missing or non-numeric.
HasBadQty ==
    \/ ZeroedQtys(Received, "Received_Qty") # Received
    \/ ZeroedQtys(Adjustment, "Adjustment_Qty") # Adjustment
    \/ ZeroedQtys(Sales, "Qty") # Sales
    \/ ZeroedQtys(CostCenter, "Qty") # CostCenter

\* C13: when quantities are missing or non-numeric (all dates being
\* dates), the page shows no exception and the data frame is a summary of
\* the tables with those quantities replaced by 0.
C13_BadQuantityCountsAsZero ==
    (Ran /\ ~HasBadDate) =>
        /\ ~Failed
        /\ LET R == ZeroedQtys(Received, "Received_Qty")
               A == ZeroedQtys(Adjustment, "Adjustment_Qty")
               S == ZeroedQtys(Sales, "Qty")
               C == ZeroedQtys(CostCenter, "Qty")
           IN  \E ord \in TieOrders(Combined(R, A, S, C)) :
                  df = get_inventory_summary(R, A, S, C, ord, start_date, end_date,
                                             search_code)

\* Table T without the rows whose product code is missing.
WithoutNullCode(T) ==
    LET keep == {x \in DOMAIN T : x.Code # NullCode}
    IN  [x \in keep |-> T[x]]

\* C14: a record with a missing product code is dropped: the data frame
\* has no row for it and is a summary of the tables without such records,
\* with and without a search text.
C14_MissingCodeIsDropped ==
    (Ran /\ ~Failed) =>
        /\ \A i \in 1..Len(df) : df[i].Code # NullCode
        /\ LET R == WithoutNullCode(Received)
               A == WithoutNullCode(Adjustment)
               S == WithoutNullCode(Sales)
               C == WithoutNullCode(CostCenter)
           IN  \E ord \in TieOrders(Combined(R, A, S, C)) :
                  df = get_inventory_summary(R, A, S, C, ord, start_date, end_date,
                                             search_code)

\* Table T without the rows whose date column col cannot be parsed.
WithParsedDate(T, col) ==
    LET keep == {x \in DOMAIN T : x[col] # TextCell}
    IN  [x \in keep |-> T[x]]

\* C15: a row with a date that cannot be parsed is dropped and the summary
\* of the other rows is produced: the page shows no exception and the data
\* frame is a summary of the tables without the rows with such a date.
C15_BadDateIsDropped ==
    (Ran /\ HasBadDate) =>
        /\ ~Failed
        /\ LET R == WithParsedDate(Received, "Received_Date")
               A == WithParsedDate(Adjustment, "Adjuctment_Date")
               S == WithParsedDate(Sales, "Sales_Date")
               C == WithParsedDate(CostCenter, "Date")
           IN  ~QueryRaises(R, A, S, C) =>
                  \E ord \in TieOrders(Combined(R, A, S, C)) :
                     df = get_inventory_summary(R, A, S, C, ord, start_date, end_date,
                                                search_code)

(***************************************************************************)
(* Properties of the page script, by claim id.                             *)
(***************************************************************************)
\* C16: a run with the start date after the end date shows the validation
\* error, executes no statement for any of the five tables and keeps the
\* two dates as entered; a run with start date equal to end date is
\* accepted, and what it shows is a result of the selected getter for the
\* one-day window (computed in this run or memoized for these arguments).
C16_DateGuard ==
    [][StockRegisterRun =>
          /\ start_date' > end_date' =>
                /\ shown' = "error"
                /\ executed' = "none"
                /\ df' = <<>>
                /\ cache' = cache
          /\ start_date' = end_date' =>
                LET fn == table_options[selected_table']
                    key == <<fn, start_date', start_date', search_code'>>
                IN  /\ shown' \in {"dataframe", "warning"}
                    /\ executed' \in {"none", fn}
                    /\ executed' = fn =>
                          df' \in GetterResults(fn, start_date', start_date', search_code')
                    /\ executed' = "none" => (key \in DOMAIN cache /\ df' = cache[key])
    ]_vars

\* C16 witness: the page shows the validation error for a start date
\* after the end date.
C16_Witness == shown = "error" /\ start_date > end_date

\* C17: every call of get_inventory_summary returns a summary of the
\* tables as they are at the call, also when the tables have changed since
\* an earlier call with the same arguments.
C17_SummaryIsOfCurrentTables ==
    [][(/\ StockRegisterRun
        /\ selected_table' = "Inventory Summary"
        /\ DateRangeOk(start_date', end_date'))
         => df' \in GetterResults("get_inventory_summary", start_date', end_date',
                                  search_code')
    ]_vars

\* C19: a run of the page, whichever of get_inventory_summary,
\* get_sales_data, get_cost_center_data, get_received_data and
\* get_adjustment_data it calls, leaves Sales, CostCenter, Received,
\* Adjustment and the other tables of the database as they were.
C19_GettersAreReadOnly == [][StockRegisterRun => UNCHANGED database]_vars

\* C19 witness: a run has executed the statement of a getter on tables
\* that hold a Sales row, and shows its rows.
C19_Witness == executed # "none" /\ shown = "dataframe" /\ Sales # EmptyBag

(***************************************************************************)
(* Properties of the sessions, by claim id.                                *)
(***************************************************************************)
\* C20: while a session executes the SELECT of the inventory summary, no
\* other session executes a statement that writes dispatch.duckdb (the
\* CREATE OR REPLACE TABLE of ensure_join_table).
C20_NoWriterDuringSummary ==
    \A s, t \in Sessions : ~(stmt[s] = "select" /\ stmt[t] = "create")

(***************************************************************************)
(* Further properties of the summary, by claim id.                         *)
(***************************************************************************)
\* Code c has a Received or Adjustment row on a day of D.
HasInflowOn(c, D) ==
    \/ \E x \in DOMAIN Received : x.Code = c /\ x.Received_Date \in D
    \/ \E x \in DOMAIN Adjustment : x.Code = c /\ x.Adjuctment_Date \in D

\* Code c has a Sales or CostCenter row on a day of D.
HasOutflowOn(c, D) ==
    \/ \E x \in DOMAIN Sales : x.Code = c /\ x.Sales_Date \in D
    \/ \E x \in DOMAIN CostCenter : x.Code = c /\ x.Date \in D

\* C21: a code that has rows of only one side inside the window (only
\* Received or Adjustment rows, or only Sales or CostCenter rows) has a row
\* in the summary, with 0 in the total of the side it has no rows of; the
\* run shows no exception.
C21_OneSidedCodeGetsRowWithZero ==
    (Ran /\ search_code = "") =>
        /\ shown # "exception"
        /\ \A c \in Codes :
              LET window == start_date..end_date
                  rows == FrameRowsOf(df, c)
              IN  /\ (HasInflowOn(c, window) /\ ~HasOutflowOn(c, window))
                        => (rows # {} /\ \A x \in rows : x.Total_Sales = 0)
                  /\ (HasOutflowOn(c, window) /\ ~HasInflowOn(c, window))
                        => (rows # {} /\ \A x \in rows : x.Total_Received = 0)

\* C21 witness: a summary was returned for a window in which one code has
\* only Sales or CostCenter rows and no row at all before the window.
C21_Witness ==
    /\ Ran
    /\ \E c \in Codes :
          /\ HasOutflowOn(c, start_date..end_date)
          /\ ~HasInflowOn(c, 1..MaxDate)
          /\ ~HasOutflowOn(c, DaysBefore(start_date))

\* C23: every event is accounted for in exactly one place by its date.
\* Taking one event e out of the tables changes, in the row of its code,
\* Previous_Stock by its signed quantity and no total when e is dated
\* before start; the total of its side by its quantity, and neither
\* Previous_Stock nor the other total, when e is dated in [start, end];
\* and nothing when e is dated after end.  The summary without e is taken
\* in the tie order that agrees best.
C23_EachEventInOnePlaceByDate ==
    Ran => \A e \in Events :
      LET one == SetToBag({e})
          c == e.Code
          inflow == e.src \in {"Received", "Adjustment"}
      IN  (/\ ReceivedOf(one) \sqsubseteq Received
           /\ AdjustmentOf(one) \sqsubseteq Adjustment
           /\ SalesOf(one) \sqsubseteq Sales
           /\ CostCenterOf(one) \sqsubseteq CostCenter) =>
          LET R == Received (-) ReceivedOf(one)
              A == Adjustment (-) AdjustmentOf(one)
              S == Sales (-) SalesOf(one)
              C == CostCenter (-) CostCenterOf(one)
          IN  \E ord \in TieOrders(Combined(R, A, S, C)) :
                LET without == get_inventory_summary(R, A, S, C, ord, start_date,
                                                     end_date, search_code)
                    dPrev == PrevOf(df, c) - PrevOf(without, c)
                    dReceived == ReceivedOfCode(df, c) - ReceivedOfCode(without, c)
                    dSales == SalesOfCode(df, c) - SalesOfCode(without, c)
                IN  IF e.Date < start_date
                    THEN dPrev = SignedQty(e) /\ dReceived = 0 /\ dSales = 0
                    ELSE IF e.Date <= end_date
                    THEN /\ dPrev = 0
                         /\ dReceived = (IF inflow THEN e.Qty ELSE 0)
                         /\ dSales = (IF inflow THEN 0 ELSE e.Qty)
                    ELSE without = df

\* The rows of table T dated up to the end of the window whose Code
\* passes the search text (every row passes the empty text).
MatchingRows(T, col) ==
    {x \in DOMAIN T : /\ x[col] <= end_date
                      /\ (search_code = "" \/ StrContains(x.Code, search_code))}

NoEventMatches ==
    /\ MatchingRows(Received, "Received_Date") = {}
    /\ MatchingRows(Adjustment, "Adjuctment_Date") = {}
    /\ MatchingRows(Sales, "Sales_Date") = {}
    /\ MatchingRows(CostCenter, "Date") = {}

ViewTotal(f, c, col) ==
    Sum([i \in {j \in 1..Len(f) : f[j].Code = c} |-> f[i][col]])

\* C24: for every code, Total_Sales of the summary equals the sum of
\* Sales_Qty of get_sales_data plus the sum of CostCenter_Qty of
\* get_cost_center_data, and Total_Received equals the sum of Received_Qty
\* of get_received_data plus the sum of Adjustment_Qty of
\* get_adjustment_data, all four called with the window and search text
\* of the summary.
C24_SummaryAgreesWithSourceViews ==
    Ran => \A c \in Codes :
        LET sales == get_sales_data(Sales, start_date, end_date, search_code)
            cost == get_cost_center_data(CostCenter, start_date, end_date, search_code)
            received == get_received_data(Received, start_date, end_date, search_code)
            adjustment == get_adjustment_data(Adjustment, start_date, end_date,
                                              search_code)
        IN  /\ SalesOfCode(df, c) = ViewTotal(sales, c, "Sales_Qty")
                                      + ViewTotal(cost, c, "CostCenter_Qty")
            /\ ReceivedOfCode(df, c) = ViewTotal(received, c, "Received_Qty")
                                      + ViewTotal(adjustment, c, "Adjustment_Qty")

\* The rows of the data frame d whose Code contains the text,
\* case-insensitively.
RowsContaining(d, text) == SelectSeq(d, LAMBDA x : StrContains(x.Code, text))

\* C25: the result of get_inventory_summary called with a search text is
\* the result of the call without search text for the same window,
\* restricted to the rows whose Code contains the text, the four
\* quantities of the kept rows unchanged.  The call without search text is
\* a second execution of the query, so each of its tie orders is compared.
C25_SearchOnlySelectsRows ==
    (Ran /\ search_code # "") =>
        IF QueryRaises(Received, Adjustment, Sales, CostCenter)
        THEN shown = "exception"
        ELSE \A ord \in TieOrders(Combined(Received, Adjustment, Sales, CostCenter)) :
               df = RowsContaining(
                      get_inventory_summary(Received, Adjustment, Sales, CostCenter,
                                            ord, start_date, end_date, ""),
                      search_code)

\* Page p issues its download request in this step.
Requests(p) == boot[p] = "request" /\ boot'[p] # "request"

\* Page p creates or truncates the file in this step.
Overwrites(p) == boot[p] = "open" /\ boot'[p] = "write"

\* C26: a download request is issued only while dispatch.duckdb does not
\* exist, and once the file exists no page downloads or overwrites it.
C26_DownloadOnlyWhenAbsent ==
    [][\A p \in BootPages : Exists(file) => ~Requests(p) /\ ~Overwrites(p)]_vars

\* C27: every connection was opened on the completely written file, and no
\* two pages are writing the file at the same time.
C27_ConnectOnlyToCompleteFile ==
    /\ \A p \in BootPages : con[p] \in {"none", "complete"}
    /\ Cardinality({p \in BootPages : boot[p] = "write"}) <= 1

\* C28: after each selection in the radio, current_page names the page
\* the session is viewing; a selection whose switch fails leaves
\* current_page as it was.
C28_CurrentPageIsPageViewed ==
    [][\A s \in Sessions :
         current_page'[s] # current_page[s]
            => page_configs[current_page'[s]] = page'[s]]_vars

\* The quantity the rows of table T hold for the code with numeral c on
\* day d.
QtyOn(T, c, d, isNumber) ==
    SumWhere(T, [x \in {y \in DOMAIN T :
                          /\ (IF isNumber THEN ToString(y.Code) ELSE y.Code) = c
                          /\ CastTimeAsDate(y.Sales_Date) = d} |-> x.Qty])

\* The rows of the table shown for code c on day d.
DifferenceRows(c, d) == {i \in 1..Len(df) : df[i].Code = c /\ df[i].Date = d}

\* C29: with all codes shown, the difference table has exactly one row for
\* every (Code, Date) with orders or sales in the window and none for any
\* other, and on each row Difference is Sales Qty minus Orders Qty, a side
\* without records being 0.
C29_OneRowPerCodeAndDate ==
    (shown = "dataframe" /\ search_code = "") =>
        \A n \in CodeNumbers, d \in Dates :
            LET c == ToString(n)
                sold == QtyOn(Sales, c, d, TRUE)
                ordered == QtyOn(Orders, c, d, FALSE)
                rows == DifferenceRows(c, d)
            IN  IF d \in start_date..end_date /\ (sold > 0 \/ ordered > 0)
                THEN /\ Cardinality(rows) = 1
                     /\ \A i \in rows :
                           /\ df[i].Difference = df[i].Sales_Qty - df[i].Orders_Qty
                           /\ (sold = 0 => df[i].Sales_Qty = 0)
                           /\ (ordered = 0 => df[i].Orders_Qty = 0)
                ELSE rows = {}

====
